---- MODULE Spec2Model ----
(***************************************************************************)
(* Model of the local study-record store with its weekly summary and its  *)
(* CSV export (StudyStorage.ts), the achievement evaluator                 *)
(* (AchievementsData.ts), the home page's "today" statistics (Home.tsx),   *)
(* the quiz session of MathQuickGame, the rounds of LogicTrainingGame, the *)
(* records tab of the parent centre and the long press on a ModuleCard.    *)
(*                                                                         *)
(* Time is counted in milliseconds from the local midnight of a reference  *)
(* day, so that toDateKey(ts) is the day number ts \div DayMs.  The value  *)
(* 0 is never a timestamp the program produces (Date.now() is positive),   *)
(* so the clock starts at 1.                                               *)
(***************************************************************************)
EXTENDS Integers, Sequences, FiniteSets, TLC

VARIABLES
    now,          \* Date.now()
    ticks,        \* number of clock advances so far (bounded by MaxTicks)
    recordsRaw,   \* localStorage[KEY]: the records slot, as stored text
    achRaw,       \* localStorage[ACH_KEY]: the achievements slot
    todayStats,   \* Home.tsx todayStats memo: minutes shown as "today"
    badges,       \* result of the latest getAchievementsState(): id -> status
    last,         \* the handler that ran last, with its arguments and result
    tabs,         \* per-tab progress of an addRecord call (two-tab scenario)
    game,         \* MathQuickGame component state and its pending timers
    calc,         \* a call of a summary function: its argument and its result
    logic,        \* LogicTrainingGame: difficulty, used questions, current round
    recordsTab,   \* parent centre, RecordsTab: its filters and its list memo
    card          \* a ModuleCard of the home page: press, long-press timer, bubble

vars == <<now, ticks, recordsRaw, achRaw, todayStats, badges, last, tabs, game, calc,
          logic, recordsTab, card>>

----------------------------------------------------------------------------
(* Bounds of the model *)

MaxTicks == 2
MaxRecords == 2
MaxInvalid == 1
MaxAppendsPerTab == 2
QuestionCount == 2
TimedSec == 1
MaxAnswers == 4
MaxStatsRecords == 2
MaxCsvRecords == 2
MaxWeekRecords == 2
MaxPresses == 3

(* Program constants *)

MsPerMinute == 60000
DayMs == 86400000
PointsPerLevel == 50

MathModule == "math"      \* the module name given by Home.tsx to MathQuickGame
LogicModule == "logic"    \* the module name given by Home.tsx to LogicTrainingGame
Modules == {MathModule, LogicModule}

(* Inputs: finished sessions <<module, score, total, elapsedMs>>, and the    *)
(* steps by which the clock advances                                        *)
Sessions == {<<MathModule, 1, 2, 20000>>, <<LogicModule, 50, 50, 600000>>}
Advances == {1, DayMs}

----------------------------------------------------------------------------
(* JSON values, and the text held by a localStorage slot.                   *)
(* Absent is a missing key (getItem returns null), Text(s) a stored string  *)
(* that is not JSON ("" included), Json(v) the string JSON.stringify(v).    *)

JNull == [t |-> "null"]
JNum(n) == [t |-> "num", n |-> n]
JStr(s) == [t |-> "str", s |-> s]
JArr(xs) == [t |-> "arr", xs |-> xs]
JObj(o) == [t |-> "obj", o |-> o]

Absent == [k |-> "absent"]
Text(s) == [k |-> "text", s |-> s]
Json(v) == [k |-> "json", v |-> v]

(* JSON.stringify of one StudyRecord and of the array of records *)
recordToJson(r) ==
    JObj([module |-> JStr(r.module), score |-> JNum(r.score), total |-> JNum(r.total),
          elapsedMs |-> JNum(r.elapsedMs), timestamp |-> JNum(r.timestamp)])

stringifyRecords(arr) == Json(JArr([i \in 1..Len(arr) |-> recordToJson(arr[i])]))

(* the object JSON.parse gives back for a stored record *)
recordFromJson(v) ==
    [module |-> v.o.module.s, score |-> v.o.score.n, total |-> v.o.total.n,
     elapsedMs |-> v.o.elapsedMs.n, timestamp |-> v.o.timestamp.n]

recordsFromJson(xs) == [i \in 1..Len(xs) |-> recordFromJson(xs[i])]

(* typeof v?.timestamp === 'number' *)
hasNumericTimestamp(v) ==
    /\ v.t = "obj"
    /\ "timestamp" \in DOMAIN v.o
    /\ v.o.timestamp.t = "num"

(* JSON.parse(raw): the parsed value, or a SyntaxError for text that is not JSON *)
JSONparse(raw) ==
    IF raw.k = "json" THEN [threw |-> FALSE, v |-> raw.v]
    ELSE [threw |-> TRUE, v |-> JNull]

(* getRecords without the try/catch around JSON.parse *)
getRecordsOutcome_nocatch(raw) ==
    IF raw.k = "absent" \/ raw = Text("") THEN [threw |-> FALSE, records |-> << >>]
    ELSE LET parsed == JSONparse(raw)
         IN  IF parsed.threw THEN [threw |-> TRUE, records |-> << >>]
             ELSE IF parsed.v.t = "arr"
                  THEN [threw |-> FALSE,
                        records |-> recordsFromJson(SelectSeq(parsed.v.xs,
                                                             hasNumericTimestamp))]
                  ELSE [threw |-> FALSE, records |-> << >>]

(* getRecords that gives up on the whole array when one element is invalid *)
getRecordsOutcome_allOrNothing(raw) ==
    IF raw.k = "absent" \/ raw = Text("") THEN [threw |-> FALSE, records |-> << >>]
    ELSE LET parsed == JSONparse(raw)
         IN  IF parsed.threw THEN [threw |-> FALSE, records |-> << >>]
             ELSE IF parsed.v.t = "arr"
                     /\ \A i \in 1..Len(parsed.v.xs) : hasNumericTimestamp(parsed.v.xs[i])
                  THEN [threw |-> FALSE, records |-> recordsFromJson(parsed.v.xs)]
                  ELSE [threw |-> FALSE, records |-> << >>]

(* getRecords() with its way of ending: [] for a missing key or "" (!raw),  *)
(* [] from the catch when JSON.parse throws, [] when the parsed value is    *)
(* not an array, else the elements with a numeric timestamp, in stored      *)
(* order.  threw tells whether an error leaves the function.                *)
getRecordsOutcome(raw) ==
    IF raw.k = "absent" \/ raw = Text("") THEN [threw |-> FALSE, records |-> << >>]
    ELSE LET parsed == JSONparse(raw)
         IN  IF parsed.threw THEN [threw |-> FALSE, records |-> << >>]
             ELSE IF parsed.v.t = "arr"
                  THEN [threw |-> FALSE,
                        records |-> recordsFromJson(SelectSeq(parsed.v.xs,
                                                             hasNumericTimestamp))]
                  ELSE [threw |-> FALSE, records |-> << >>]

getRecords(raw) == getRecordsOutcome(raw).records

(* addRecord that writes the new record alone, forgetting what was stored *)
addRecord_overwrite(raw, rec, writeOk) ==
    IF writeOk THEN stringifyRecords(<<rec>>) ELSE raw

(* addRecord that puts the new record in front (unshift for push) *)
addRecordRead_unshift(raw, rec) == <<rec>> \o getRecords(raw)

(* addRecord(rec), first half: const arr = getRecords(); arr.push(rec) *)
addRecordRead(raw, rec) == Append(getRecords(raw), rec)

(* a write that appends the new record to what the slot holds by then *)
addRecordWrite_merge(raw, arr, writeOk) ==
    IF writeOk THEN stringifyRecords(Append(getRecords(raw), arr[Len(arr)])) ELSE raw

(* addRecord(rec), second half: setItem(KEY, JSON.stringify(arr)); a        *)
(* failing setItem (writeOk = FALSE) is swallowed and leaves the slot.      *)
addRecordWrite(raw, arr, writeOk) ==
    IF writeOk THEN stringifyRecords(arr) ELSE raw

(* addRecord(rec): read, push, write everything back *)
addRecord(raw, rec, writeOk) == addRecordWrite(raw, addRecordRead(raw, rec), writeOk)

(* addRecord whose setItem is not inside a try: the error leaves it *)
addRecordOutcome_nocatch(raw, rec, writeOk) ==
    [threw |-> ~writeOk, raw |-> addRecord(raw, rec, writeOk)]

(* addRecord(rec) with its way of ending: the slot after the call, and      *)
(* whether an error leaves the function (the catch around setItem is empty) *)
addRecordOutcome(raw, rec, writeOk) ==
    [threw |-> FALSE, raw |-> addRecord(raw, rec, writeOk)]

(* clearRecords that removes the latest record only *)
clearRecords_dropLast(slots) ==
    LET rs == getRecords(slots.records)
    IN  IF Len(rs) <= 1 THEN [slots EXCEPT !.records = Absent]
        ELSE [slots EXCEPT !.records = stringifyRecords(SubSeq(rs, 1, Len(rs) - 1))]

(* clearRecords that removes both keys *)
clearRecords_all(slots) == [records |-> Absent, ach |-> Absent]

(* clearRecords(): removeItem(KEY); the slots after the call *)
clearRecords(slots) == [slots EXCEPT !.records = Absent]

----------------------------------------------------------------------------
(* Dates *)

toDateKey(ts) == ts \div DayMs

(* Math.round(ms / 60000) for ms >= 0 *)
roundMinutes(ms) == (ms + (MsPerMinute \div 2)) \div MsPerMinute

Max(a, b) == IF a >= b THEN a ELSE b
Min(a, b) == IF a <= b THEN a ELSE b

(* getLast7DayLabels(): the 7 day keys, oldest first, ending today *)
getLast7DayLabels(t) == [i \in 1..7 |-> toDateKey(t) - (7 - i)]

(* getRecordsWithinDays(days), with start = end - (days - 1) * 24*60*60*1000. *)
(* For 30 and 90 days the product is beyond 2^31, so r.timestamp >= start   *)
(* is evaluated as end - r.timestamp <= (days - 1) * DayMs, on the whole     *)
(* days and the remainder of end - r.timestamp.                              *)
getRecordsWithinDays(raw, t, days) ==
    LET end == t
        age(r) == end - r.timestamp
        atOrAfterStart(r) ==
            \/ age(r) <= 0
            \/ age(r) \div DayMs < days - 1
            \/ age(r) \div DayMs = days - 1 /\ age(r) % DayMs = 0
        inWindow(r) == atOrAfterStart(r) /\ r.timestamp <= end
    IN  SelectSeq(getRecords(raw), inWindow)

(* getRecentRecords(limit): Array.prototype.sort is stable, so records of   *)
(* one timestamp keep their stored order behind every later record          *)
sortNewestFirst(rs) ==
    LET place(i) == 1 + Cardinality({j \in 1..Len(rs) : rs[j].timestamp > rs[i].timestamp})
                      + Cardinality({j \in 1..(i - 1) : rs[j].timestamp = rs[i].timestamp})
    IN  [k \in 1..Len(rs) |-> rs[CHOOSE i \in 1..Len(rs) : place(i) = k]]

getRecentRecords(raw, limit) ==
    SubSeq(sortNewestFirst(getRecords(raw)), 1, Min(limit, Len(getRecords(raw))))

(* getModulesFromRecords(): the distinct module names *)
getModulesFromRecords(raw) ==
    {getRecords(raw)[i].module : i \in 1..Len(getRecords(raw))}

----------------------------------------------------------------------------
(* getWeeklySummaryFromStorage(): per-day buckets and the streak *)

(* minutes counted in whole minutes only (Math.floor for Math.round) *)
recordMinutes_floor(r) == Max(0, r.elapsedMs \div MsPerMinute)

(* Math.max(0, Math.round(r.elapsedMs / 60000)) *)
recordMinutes(r) == Max(0, roundMinutes(r.elapsedMs))

RECURSIVE SumMinutes(_)
SumMinutes(rs) == IF rs = << >> THEN 0 ELSE recordMinutes(Head(rs)) + SumMinutes(Tail(rs))

RECURSIVE SumScore(_)
SumScore(rs) == IF rs = << >> THEN 0 ELSE Head(rs).score + SumScore(Tail(rs))

RECURSIVE SumTotal(_)
SumTotal(rs) == IF rs = << >> THEN 0 ELSE Head(rs).total + SumTotal(Tail(rs))

(* byDay after the loop over the records: one bucket per tracked day key *)
byDay(raw, t) ==
    LET labels == getLast7DayLabels(t)
        records == getRecords(raw)
    IN  [i \in 1..7 |->
            LET onDay(r) == toDateKey(r.timestamp) = labels[i]
                rs == SelectSeq(records, onDay)
            IN  [minutes |-> SumMinutes(rs), correct |-> SumScore(rs), total |-> SumTotal(rs)]]

(* Math.round(a / b) for a >= 0 and b > 0 *)
roundDiv(a, b) == (2 * a + b) \div (2 * b)

(* Number((correct / total).toFixed(2)), in hundredths *)
toFixed2(correct, total) == roundDiv(100 * correct, total)

(* weekly: per day the minutes and the correctRate, the rate in hundredths *)
weeklyOf(bd) ==
    [i \in 1..7 |->
        [minutes |-> bd[i].minutes,
         correctRate |-> IF bd[i].total > 0 THEN toFixed2(bd[i].correct, bd[i].total) ELSE 0]]

(* weekly.reduce((s, d) => s + ..., 0) over the days 1..i *)
RECURSIVE SumDayMinutes(_, _)
SumDayMinutes(weekly, i) ==
    IF i < 1 THEN 0 ELSE weekly[i].minutes + SumDayMinutes(weekly, i - 1)

RECURSIVE SumDayRates(_, _)
SumDayRates(weekly, i) ==
    IF i < 1 THEN 0 ELSE weekly[i].correctRate + SumDayRates(weekly, i - 1)

RECURSIVE SumWeightedRates(_, _)
SumWeightedRates(weekly, i) ==
    IF i < 1 THEN 0
    ELSE weekly[i].correctRate * weekly[i].minutes + SumWeightedRates(weekly, i - 1)

RECURSIVE SumCorrectMinutes(_, _)
SumCorrectMinutes(weekly, i) ==
    IF i < 1 THEN 0
    ELSE roundDiv(weekly[i].minutes * weekly[i].correctRate, 100)
            + SumCorrectMinutes(weekly, i - 1)

(* streak that passes over the days without study *)
RECURSIVE streakFrom_passesGaps(_, _)
streakFrom_passesGaps(weekly, i) ==
    IF i < 1 THEN 0
    ELSE (IF weekly[i].minutes > 0 THEN 1 ELSE 0) + streakFrom_passesGaps(weekly, i - 1)

(* streak: from today backwards, consecutive days with minutes > 0 *)
RECURSIVE streakFrom(_, _)
streakFrom(weekly, i) ==
    IF i < 1 THEN 0
    ELSE IF weekly[i].minutes > 0 THEN 1 + streakFrom(weekly, i - 1)
    ELSE 0

streakDays(raw, t) == streakFrom(byDay(raw, t), 7)

(* the average of the daily rates that gives every day the same weight *)
avgCorrectRate_unweighted(weekly) == roundDiv(SumDayRates(weekly, 7), 7)

(* avgCorrectRate, a percentage: weighted by minutes when there are any *)
avgCorrectRate(weekly) ==
    LET minuteSum == SumDayMinutes(weekly, 7)
    IN  IF minuteSum > 0
        THEN roundDiv(SumWeightedRates(weekly, 7), minuteSum)
        ELSE roundDiv(SumDayRates(weekly, 7), 7)

(* a summary whose wrongMinutes is rounded from the average rate instead of *)
(* being what correctMinutes leaves of totalMinutes                         *)
weeklySummaryOf_wrongByRate(bd) ==
    LET weekly == weeklyOf(bd)
        totalMinutes == SumDayMinutes(weekly, 7)
        correctMinutes == SumCorrectMinutes(weekly, 7)
    IN  [weekly |-> weekly,
         totalMinutes |-> totalMinutes,
         avgCorrectRate |-> avgCorrectRate(weekly),
         streakDays |-> streakFrom(weekly, 7),
         correctMinutes |-> correctMinutes,
         wrongMinutes |-> roundDiv(totalMinutes * (100 - avgCorrectRate(weekly)), 100)]

(* the summary computed from the buckets of the 7 days *)
weeklySummaryOf(bd) ==
    LET weekly == weeklyOf(bd)
        totalMinutes == SumDayMinutes(weekly, 7)
        correctMinutes == SumCorrectMinutes(weekly, 7)
    IN  [weekly |-> weekly,
         totalMinutes |-> totalMinutes,
         avgCorrectRate |-> avgCorrectRate(weekly),
         streakDays |-> streakFrom(weekly, 7),
         correctMinutes |-> correctMinutes,
         wrongMinutes |-> Max(0, totalMinutes - correctMinutes)]

(* getWeeklySummaryFromStorage() *)
getWeeklySummaryFromStorage(raw, t) == weeklySummaryOf(byDay(raw, t))

----------------------------------------------------------------------------
(* exportRecordsToCSV().  A string is the sequence of its characters.  The  *)
(* numbers are written in decimal, as String(n) writes a non-negative       *)
(* integer.  The text of toISOString() is stood for by T<timestamp>Z: like  *)
(* the ISO text it is determined by the timestamp and holds no comma, no    *)
(* quote and no line break.                                                 *)

Quote == "\""
Comma == ","
LineBreak == "\n"

Digit(d) == <<"0", "1", "2", "3", "4", "5", "6", "7", "8", "9">>[d + 1]

RECURSIVE numberToString(_)
numberToString(n) ==
    IF n < 10 THEN <<Digit(n)>> ELSE numberToString(n \div 10) \o <<Digit(n % 10)>>

toISOString(ts) == <<"T">> \o numberToString(ts) \o <<"Z">>

(* v.replaceAll('"', '""') *)
RECURSIVE replaceAllQuotes(_)
replaceAllQuotes(v) ==
    IF v = << >> THEN << >>
    ELSE (IF Head(v) = Quote THEN <<Quote, Quote>> ELSE <<Head(v)>>)
            \o replaceAllQuotes(Tail(v))

includes(v, c) == \E i \in 1..Len(v) : v[i] = c

(* escapeCsv that wraps the field and leaves its quotes single *)
escapeCsv_singleQuotes(v) ==
    IF includes(v, Comma) \/ includes(v, Quote) \/ includes(v, LineBreak)
    THEN <<Quote>> \o v \o <<Quote>>
    ELSE v

escapeCsv(v) ==
    IF includes(v, Comma) \/ includes(v, Quote) \/ includes(v, LineBreak)
    THEN <<Quote>> \o replaceAllQuotes(v) \o <<Quote>>
    ELSE v

(* parts.join(sep) *)
RECURSIVE join(_, _)
join(parts, sep) ==
    IF parts = << >> THEN << >>
    ELSE IF Len(parts) = 1 THEN parts[1]
    ELSE parts[1] \o <<sep>> \o join(Tail(parts), sep)

csvHeader ==
    << <<"m", "o", "d", "u", "l", "e">>, <<"s", "c", "o", "r", "e">>,
       <<"t", "o", "t", "a", "l">>, <<"e", "l", "a", "p", "s", "e", "d", "M", "s">>,
       <<"t", "i", "m", "e", "s", "t", "a", "m", "p">>, <<"i", "s", "o">> >>

csvRow(r) ==
    <<escapeCsv(r.module), numberToString(r.score), numberToString(r.total),
      numberToString(r.elapsedMs), numberToString(r.timestamp), toISOString(r.timestamp)>>

exportRecordsToCSV(raw) ==
    LET records == getRecords(raw)
        rows == <<csvHeader>> \o [i \in 1..Len(records) |-> csvRow(records[i])]
    IN  join([i \in 1..Len(rows) |-> join(rows[i], Comma)], LineBreak)

----------------------------------------------------------------------------
(* computeStats(records).  bestAccuracy is kept as the fraction <<n, d>>.   *)

accuracyOf(r) == IF r.total > 0 THEN <<r.score, r.total>> ELSE <<0, 1>>

FracGreater(a, b) == a[1] * b[2] > b[1] * a[2]
FracAtLeast(a, b) == a[1] * b[2] >= b[1] * a[2]

(* the accuracy of all sessions taken together *)
bestAccuracyOf_aggregate(rs, best) ==
    IF SumTotal(rs) > 0 THEN <<SumScore(rs), SumTotal(rs)>> ELSE <<0, 1>>

RECURSIVE bestAccuracyOf(_, _)
bestAccuracyOf(rs, best) ==
    IF rs = << >> THEN best
    ELSE LET acc == accuracyOf(Head(rs))
         IN  bestAccuracyOf(Tail(rs), IF FracGreater(acc, best) THEN acc ELSE best)

moduleCount(rs, m) == LET isM(r) == r.module = m IN Len(SelectSeq(rs, isM))

(* moduleCounts: module -> times played, for the modules that occur *)
moduleCounts(rs) ==
    [m \in {rs[i].module : i \in 1..Len(rs)} |-> moduleCount(rs, m)]

computeStats(raw, t) ==
    LET records == getRecords(raw)
    IN  [sessions |-> Len(records),
         totalAnswered |-> SumTotal(records),
         totalCorrect |-> SumScore(records),
         bestAccuracy |-> bestAccuracyOf(records, <<0, 1>>),
         streakDays |-> streakDays(raw, t),
         minutes |-> SumMinutes(records),
         moduleCounts |-> moduleCounts(records)]

(* s.moduleCounts[m] || 0 *)
countOr0(counts, m) == IF m \in DOMAIN counts THEN counts[m] ELSE 0

(* BADGES: the check of each badge, as {unlocked} *)
BadgeIds == {"starter-1", "ten-sessions", "hundred-answers", "accuracy-90", "streak-3", "math-3"}

(* the checks with thresholds that have to be passed, not only reached *)
BADGES_exceed(id, s) ==
    CASE id = "starter-1" -> s.sessions > 1
      [] id = "ten-sessions" -> s.sessions > 10
      [] id = "hundred-answers" -> s.totalAnswered > 100
      [] id = "accuracy-90" -> FracGreater(s.bestAccuracy, <<9, 10>>)
      [] id = "streak-3" -> s.streakDays > 3
      [] id = "math-3" -> countOr0(s.moduleCounts, MathModule) > 3

BADGES(id, s) ==
    CASE id = "starter-1" -> s.sessions >= 1
      [] id = "ten-sessions" -> s.sessions >= 10
      [] id = "hundred-answers" -> s.totalAnswered >= 100
      [] id = "accuracy-90" -> FracAtLeast(s.bestAccuracy, <<9, 10>>)
      [] id = "streak-3" -> s.streakDays >= 3
      [] id = "math-3" -> countOr0(s.moduleCounts, MathModule) >= 3

(* BADGES: the progress of each badge, as the fraction <<n, d>>;           *)
(* Math.min(1, x / goal) is <<Min(x, goal), goal>>                          *)
badgeProgress(id, s) ==
    CASE id = "starter-1" -> <<Min(s.sessions, 1), 1>>
      [] id = "ten-sessions" -> <<Min(s.sessions, 10), 10>>
      [] id = "hundred-answers" -> <<Min(s.totalAnswered, 100), 100>>
      [] id = "accuracy-90" -> s.bestAccuracy
      [] id = "streak-3" -> <<Min(s.streakDays, 3), 3>>
      [] id = "math-3" -> <<Min(countOr0(s.moduleCounts, MathModule), 3), 3>>

(* b.check(stats) *)
badgeCheck(id, s) == [unlocked |-> BADGES(id, s), progress |-> badgeProgress(id, s)]

----------------------------------------------------------------------------
(* The unlock map: badge id -> timestamp of the first observed unlock *)

NoTs == 0    \* an absent unlockedAt (undefined)

getUnlockedMap(raw) ==
    IF raw.k = "absent" THEN << >>
    ELSE IF raw.k = "text" THEN << >>
    ELSE IF raw.v.t = "obj" THEN [id \in DOMAIN raw.v.o |-> raw.v.o[id].n]
    ELSE << >>

setUnlockedMap(map) == Json(JObj([id \in DOMAIN map |-> JNum(map[id])]))

unlockedAtOf(map, id) == IF id \in DOMAIN map THEN map[id] ELSE NoTs

(* a level for every 100 points *)
levelOf_per100(points) == Max(1, (points \div 100) + 1)

(* level = Math.max(1, Math.floor(points / 50) + 1) *)
levelOf(points) == Max(1, (points \div PointsPerLevel) + 1)

(* getAchievementsState that stamps every badge whose check holds, also     *)
(* one that already has an entry                                            *)
getAchievementsState_restamp(recRaw, aRaw, t) ==
    LET stats == computeStats(recRaw, t)
        map0 == getUnlockedMap(aRaw)
        isNew(id) == BADGES(id, stats)
        map1 == [id \in DOMAIN map0 \cup {b \in BadgeIds : isNew(b)} |->
                    IF isNew(id) THEN t ELSE map0[id]]
        points == stats.totalCorrect
    IN  [stats |-> stats,
         badges |-> [id \in BadgeIds |->
                        [unlocked |-> BADGES(id, stats),
                         unlockedAt |-> unlockedAtOf(map1, id)]],
         unlockedMap |-> map1,
         points |-> points,
         level |-> levelOf(points)]

(* getAchievementsState(): the returned state and the map written back *)
getAchievementsState(recRaw, aRaw, t) ==
    LET stats == computeStats(recRaw, t)
        map0 == getUnlockedMap(aRaw)
        isNew(id) == BADGES(id, stats) /\ unlockedAtOf(map0, id) = NoTs
        map1 == [id \in DOMAIN map0 \cup {b \in BadgeIds : isNew(b)} |->
                    IF isNew(id) THEN t ELSE map0[id]]
        points == stats.totalCorrect
    IN  [stats |-> stats,
         badges |-> [id \in BadgeIds |->
                        [unlocked |-> BADGES(id, stats),
                         unlockedAt |-> unlockedAtOf(map1, id)]],
         unlockedMap |-> map1,
         points |-> points,
         level |-> levelOf(points)]

----------------------------------------------------------------------------
(* Home.tsx todayStats: minutes of today's records *)

RECURSIVE SumTodayMinutes(_)
SumTodayMinutes(rs) ==
    IF rs = << >> THEN 0
    ELSE Max(1, roundMinutes(Head(rs).elapsedMs)) + SumTodayMinutes(Tail(rs))

todayMinutes(raw, t) ==
    LET todayKey == toDateKey(t)
        isToday(r) == toDateKey(r.timestamp) = todayKey
        recordsToday == SelectSeq(getRecordsWithinDays(raw, t, 1), isToday)
    IN  SumTodayMinutes(recordsToday)

----------------------------------------------------------------------------
(* State after the page has loaded on an empty localStorage *)

(* LogicTrainingGame: the question bank and the draw of a round *)

Levels == {"easy", "normal", "hard"}

BANK_COUNT == 100

(* buildBank: ids 1..40 are easy, 41..80 normal, 81..100 hard; the texts and
   truth values of the items play no part in the draw *)
BANK ==
    [id \in 1..BANK_COUNT |->
        IF id <= 40 THEN "easy" ELSE IF id <= 80 THEN "normal" ELSE "hard"]

(* the count prop of the component, left at its default by Home.tsx *)
count == 8

(* the k first ids of a filtered bank: BANK.filter keeps the bank's order,
   which is the order of the ids *)
smallest(S, k) == {x \in S : Cardinality({y \in S : y < x}) < k}

ascending(S) ==
    [i \in 1..Cardinality(S) |->
        CHOOSE x \in S : Cardinality({y \in S : y < x}) = i - 1]

(* the inner function of pickIndices: shuffle(ids) returns a shuffled copy
   that is dropped, so ids are pushed in the order of arr until res has n *)
source(res, arr, n) == res \o ascending(smallest(arr, n - Len(res)))

pool(level, used) == {id \in DOMAIN BANK : BANK[id] = level /\ id \notin used}

others(used) == {id \in DOMAIN BANK : id \notin used}

pickIndices(level, used, n) ==
    LET res == source(<< >>, pool(level, used), n)
    IN  IF Len(res) < n THEN source(res, others(used), n) ELSE res

idsOf(indices) == {indices[i] : i \in DOMAIN indices}

-----------------------------------------------------------------------------
(* timerRef.current of a ModuleCard with no timer id in it (null) *)
NoTimer == 0

(* the option "all modules" of the module filter *)
AllModules == "all"

Tabs == {1, 2}

NoRecord == [module |-> "", score |-> 0, total |-> 0, elapsedMs |-> 0, timestamp |-> 0]

(* the handler that ran last: its name, the record it was given, whether   *)
(* an error left it, and whether it found the store empty                  *)
lastOf(op, rec) == [op |-> op, rec |-> rec, threw |-> FALSE, wasEmpty |-> FALSE]

NoCalc == [fn |-> "none"]

InitBase ==
    /\ now = 1
    /\ ticks = 0
    /\ recordsRaw = Absent
    /\ achRaw = Absent
    /\ todayStats = [minutes |-> 0]
    /\ badges = [id \in BadgeIds |-> [unlocked |-> FALSE, unlockedAt |-> NoTs]]
    /\ last = lastOf("init", NoRecord)
    /\ tabs = [pc |-> [t \in Tabs |-> "idle"],
               arr |-> [t \in Tabs |-> << >>],
               written |-> [t \in Tabs |-> << >>],
               race |-> FALSE]
    /\ game = [mounted |-> FALSE, timed |-> 0, index |-> 0, answers |-> << >>,
               finished |-> FALSE, paused |-> FALSE, timeLeft |-> 0,
               timers |-> << >>, effectTimer |-> << >>]
    /\ logic = [level |-> "easy",
                indices |-> pickIndices("easy", {}, count),
                used |-> idsOf(pickIndices("easy", {}, count)),
                before |-> {}]
    /\ recordsTab = [mounted |-> FALSE, days |-> 7, module |-> AllModules,
                     modules |-> {AllModules}, list |-> << >>]
    /\ card = [info |-> FALSE, timerRef |-> NoTimer, pending |-> {}, nextId |-> 1,
               pressed |-> FALSE, fired |-> FALSE, clicks |-> 0]

Init == InitBase /\ calc = NoCalc

----------------------------------------------------------------------------
(* Single-tab operation of the store, the home page and the evaluator *)

(* the clock advances *)
Tick(d) ==
    /\ ticks < MaxTicks
    /\ now' = now + d
    /\ ticks' = ticks + 1
    /\ last' = lastOf("other", NoRecord)
    /\ UNCHANGED <<recordsRaw, achRaw, todayStats, badges, tabs, game, calc, logic, recordsTab, card>>

(* Home.tsx onFinish of a game: addRecord({..., timestamp: Date.now()}),    *)
(* then setRefreshTick, which recomputes todayStats in the re-render.       *)
onFinishEffect(m, score, total, elapsedMs) ==
    LET rec == [module |-> m, score |-> score, total |-> total,
                elapsedMs |-> elapsedMs, timestamp |-> now]
    IN  /\ recordsRaw' = addRecord(recordsRaw, rec, TRUE)
        /\ todayStats' = [minutes |-> todayMinutes(recordsRaw', now)]
        /\ last' = lastOf("Append", rec)

(* a game session ends and reports its result *)
onFinish(m, score, total, elapsedMs) ==
    /\ Len(getRecords(recordsRaw)) < MaxRecords
    /\ onFinishEffect(m, score, total, elapsedMs)
    /\ UNCHANGED <<now, ticks, achRaw, badges, tabs, game, calc, logic, recordsTab, card>>

(* a game session ends while localStorage is full: setItem throws           *)
(* QuotaExceededError inside addRecord.  The handler goes on to              *)
(* setRefreshTick unless the error reaches it.                               *)
onFinishRejected(m, score, total, elapsedMs) ==
    LET rec == [module |-> m, score |-> score, total |-> total,
                elapsedMs |-> elapsedMs, timestamp |-> now]
        out == addRecordOutcome(recordsRaw, rec, FALSE)
    IN  /\ recordsRaw' = out.raw
        /\ todayStats' = IF out.threw THEN todayStats
                          ELSE [minutes |-> todayMinutes(recordsRaw', now)]
        /\ last' = [lastOf("AppendRejected", rec) EXCEPT !.threw = out.threw]
        /\ UNCHANGED <<now, ticks, achRaw, badges, tabs, game, calc, logic, recordsTab, card>>

(* the home page is (re)loaded: todayStats is computed afresh *)
HomeMount ==
    /\ todayStats' = [minutes |-> todayMinutes(recordsRaw, now)]
    /\ last' = lastOf("HomeMount", NoRecord)
    /\ UNCHANGED <<now, ticks, recordsRaw, achRaw, badges, tabs, game, calc, logic, recordsTab, card>>

(* parent centre, records tab: the user confirms "clear" *)
Clear ==
    LET slots == clearRecords([records |-> recordsRaw, ach |-> achRaw])
    IN  /\ recordsRaw' = slots.records
        /\ achRaw' = slots.ach
        /\ last' = [lastOf("Clear", NoRecord) EXCEPT
                        !.wasEmpty = (getRecords(recordsRaw) = << >>)]
        /\ UNCHANGED <<now, ticks, todayStats, badges, tabs, game, calc, logic, recordsTab, card>>

(* an evaluation that also writes the records it has read back *)
Evaluate_rewritesRecords ==
    LET res == getAchievementsState(recordsRaw, achRaw, now)
    IN  /\ achRaw' = setUnlockedMap(res.unlockedMap)
        /\ recordsRaw' = stringifyRecords(getRecords(recordsRaw))
        /\ badges' = res.badges
        /\ last' = lastOf("Evaluate", NoRecord)
        /\ UNCHANGED <<now, ticks, todayStats, tabs, game, calc, logic, recordsTab, card>>

(* AchievementsCenter is opened: getAchievementsState() *)
Evaluate ==
    LET res == getAchievementsState(recordsRaw, achRaw, now)
    IN  /\ achRaw' = setUnlockedMap(res.unlockedMap)
        /\ badges' = res.badges
        /\ last' = lastOf("Evaluate", NoRecord)
        /\ UNCHANGED <<now, ticks, recordsRaw, todayStats, tabs, game, calc, logic, recordsTab, card>>

(* Something other than this program rewrites the records slot *)
InvalidElements ==
    {JNull, JObj([module |-> JStr(MathModule), timestamp |-> JStr("1")])}

CorruptValues ==
    {Text(""), Text("{oops"), Json(JNull), Json(JObj([timestamp |-> JNum(1)]))}

Corrupt(v) ==
    /\ recordsRaw' = v
    /\ last' = lastOf("other", NoRecord)
    /\ UNCHANGED <<now, ticks, achRaw, todayStats, badges, tabs, game, calc, logic, recordsTab, card>>

storedElements(raw) == IF raw.k = "json" /\ raw.v.t = "arr" THEN raw.v.xs ELSE << >>

isInvalid(v) == ~hasNumericTimestamp(v)

InsertAt(s, i, x) == SubSeq(s, 1, i) \o <<x>> \o SubSeq(s, i + 1, Len(s))

(* an element without a numeric timestamp is put into the stored array *)
InjectInvalid(v, i) ==
    LET xs == storedElements(recordsRaw)
    IN  /\ Len(SelectSeq(xs, isInvalid)) < MaxInvalid
        /\ i <= Len(xs)
        /\ recordsRaw' = Json(JArr(InsertAt(xs, i, v)))
        /\ last' = lastOf("other", NoRecord)
        /\ UNCHANGED <<now, ticks, achRaw, todayStats, badges, tabs, game, calc, logic, recordsTab, card>>

StoreNext ==
    \/ \E d \in Advances : Tick(d)
    \/ \E s \in Sessions : onFinish(s[1], s[2], s[3], s[4])
    \/ HomeMount
    \/ Clear

(* the store with the evaluator *)
Next ==
    \/ StoreNext
    \/ Evaluate

Spec == Init /\ [][Next]_vars

(* the achievements centre over the store: sessions, clears, evaluations *)
NextAchievements ==
    \/ \E d \in Advances : Tick(d)
    \/ \E s \in Sessions : onFinish(s[1], s[2], s[3], s[4])
    \/ Clear
    \/ Evaluate

SpecAchievements == Init /\ [][NextAchievements]_vars

(* the store on a device whose localStorage may be full *)
NextQuota ==
    \/ StoreNext
    \/ \E s \in Sessions : onFinishRejected(s[1], s[2], s[3], s[4])

SpecQuota == Init /\ [][NextQuota]_vars

(* the store under outside interference with the records slot *)
NextCorrupt ==
    \/ StoreNext
    \/ \E v \in CorruptValues : Corrupt(v)
    \/ \E v \in InvalidElements, i \in 0..MaxRecords : InjectInvalid(v, i)

SpecCorrupt == Init /\ [][NextCorrupt]_vars

----------------------------------------------------------------------------
(* Two tabs of the same browser share localStorage.  A tab runs addRecord   *)
(* without interruption from its own handlers, but the other tab's reads    *)
(* and writes may fall between its getItem and its setItem.                 *)

otherTab(t) == 3 - t

(* tab 1 plays the arithmetic game, tab 2 the logic game *)
moduleOfTab(t) == IF t = 1 THEN MathModule ELSE LogicModule

(* tab t enters addRecord: getRecords() and push.  The sessions of a tab    *)
(* differ in their duration by a millisecond, which tells their records     *)
(* apart.                                                                   *)
TabRead(t, s) ==
    LET rec == [module |-> s[1], score |-> s[2], total |-> s[3],
                elapsedMs |-> s[4] + Len(tabs.written[t]), timestamp |-> now]
    IN  /\ tabs.pc[t] = "idle"
        /\ s[1] = moduleOfTab(t)
        /\ Len(tabs.written[t]) < MaxAppendsPerTab
        /\ tabs' = [tabs EXCEPT !.pc[t] = "write",
                                !.arr[t] = addRecordRead(recordsRaw, rec),
                                !.race = (tabs.pc[otherTab(t)] = "write")]
        /\ last' = lastOf("other", NoRecord)
        /\ UNCHANGED <<now, ticks, recordsRaw, achRaw, todayStats, badges, game, calc, logic, recordsTab, card>>

(* tab t leaves addRecord: setItem *)
TabWrite(t) ==
    /\ tabs.pc[t] = "write"
    /\ recordsRaw' = addRecordWrite(recordsRaw, tabs.arr[t], TRUE)
    /\ tabs' = [tabs EXCEPT !.pc[t] = "idle",
                            !.arr[t] = << >>,
                            !.written[t] = Append(@, tabs.arr[t][Len(tabs.arr[t])])]
    /\ last' = lastOf("Append", tabs.arr[t][Len(tabs.arr[t])])
    /\ UNCHANGED <<now, ticks, achRaw, todayStats, badges, game, calc, logic, recordsTab, card>>

NextTabs ==
    \/ Tick(1)
    \/ \E t \in Tabs, s \in Sessions : TabRead(t, s)
    \/ \E t \in Tabs : TabWrite(t)

SpecTabs == Init /\ [][NextTabs]_vars

----------------------------------------------------------------------------
(* The summary functions, each called once on an argument taken from a      *)
(* set of values that stored records give rise to.                          *)

(* a day's bucket: no study; 10 minutes at 1 of 2; 30 minutes at 9 of 10;   *)
(* a session shorter than half a minute at 1 of 2                           *)
BucketKinds ==
    {[minutes |-> 0, correct |-> 0, total |-> 0],
     [minutes |-> 10, correct |-> 1, total |-> 2],
     [minutes |-> 30, correct |-> 9, total |-> 10],
     [minutes |-> 0, correct |-> 1, total |-> 2]}

(* the week with the minutes 5, 0, 3, 4, 0, 6, 7, oldest day first *)
StreakExample ==
    [i \in 1..7 |-> [minutes |-> <<5, 0, 3, 4, 0, 6, 7>>[i], correct |-> 1, total |-> 2]]

WeeklyInputs == [1..7 -> BucketKinds] \cup {StreakExample}

(* stored records as computeStats reads them: of either module, with      *)
(* 1 of 2, 9 of 10, or a total of 0                                         *)
StatsRecords ==
    {[module |-> m, score |-> st[1], total |-> st[2], elapsedMs |-> 20000, timestamp |-> 1] :
        m \in Modules, st \in {<<1, 2>>, <<9, 10>>, <<1, 0>>}}

SeqsUpTo(S, n) == UNION {[1..k -> S] : k \in 0..n}

StatsInputs == SeqsUpTo(StatsRecords, MaxStatsRecords)

(* Stats values around the thresholds of the badges.  Left out are the     *)
(* combinations no store gives: answers, accuracy, streak days or module    *)
(* counts without as many sessions.                                         *)
StatsValues ==
    {s \in [sessions : {0, 1, 3, 9, 10}, totalAnswered : {0, 99, 100}, totalCorrect : {0},
            bestAccuracy : {<<0, 1>>, <<89, 100>>, <<9, 10>>, <<1, 1>>},
            streakDays : {0, 2, 3}, minutes : {0},
            moduleCounts : {<< >>, [m \in {MathModule} |-> 2], [m \in {MathModule} |-> 3],
                            [m \in {LogicModule} |-> 3]}] :
        /\ s.streakDays <= s.sessions
        /\ \A m \in DOMAIN s.moduleCounts : s.moduleCounts[m] <= s.sessions
        /\ s.sessions = 0 => (s.totalAnswered = 0 /\ s.bestAccuracy = <<0, 1>>)
        /\ s.sessions > 0 => s.moduleCounts # << >>}

(* module names for the export: plain, with a comma, a quote, a line       *)
(* break, made of quotes only, empty, and A,"B"                             *)
CsvExampleModule == <<"A", Comma, Quote, "B", Quote>>

CsvModules ==
    {<<"A">>, <<"A", Comma, "B">>, <<"A", Quote, "B">>, <<"A", LineBreak, "B">>,
     <<Quote>>, <<Quote, Quote>>, << >>, CsvExampleModule}

CsvRecords ==
    {[module |-> m, score |-> 1, total |-> 2, elapsedMs |-> 20000, timestamp |-> 1] :
        m \in CsvModules}

CsvInputs == SeqsUpTo(CsvRecords, MaxCsvRecords)

HourMs == 60 * MsPerMinute

(* the parent centre is read at noon of day 7: the tracked days are 1..7 *)
WeekNow == 7 * DayMs + 12 * HourMs

(* timestamps: seven days ago (no tracked day); six calendar days ago at    *)
(* 11:00, at 12:00 and at 13:00; today at 11:00, now, and today at 13:00    *)
(* (a device clock that was set back since)                                 *)
WeekTimestamps ==
    {WeekNow - 7 * DayMs + HourMs,
     WeekNow - 6 * DayMs - HourMs, WeekNow - 6 * DayMs, WeekNow - 6 * DayMs + HourMs,
     WeekNow - HourMs, WeekNow, WeekNow + HourMs}

(* sessions of 20 s with 3 of 3, of 30 s with 1 of 2, and of 90 s with the  *)
(* 3 of 2 that MathQuickGame can report                                     *)
WeekSessions == {<<3, 3, 20000>>, <<1, 2, 30000>>, <<3, 2, 90000>>}

WeekRecords ==
    {[module |-> MathModule, score |-> s[1], total |-> s[2], elapsedMs |-> s[3],
      timestamp |-> ts] : s \in WeekSessions, ts \in WeekTimestamps}

WeekInputs ==
    {[records |-> rs, at |-> WeekNow] : rs \in SeqsUpTo(WeekRecords, MaxWeekRecords)}

CalcInputs ==
    {[fn |-> "week", arg |-> w, done |-> FALSE] : w \in WeekInputs}
    \cup {[fn |-> "weekly", arg |-> w, done |-> FALSE] : w \in WeeklyInputs}
    \cup {[fn |-> "csv", arg |-> rs, done |-> FALSE] : rs \in CsvInputs}
    \cup {[fn |-> "badges", arg |-> st, done |-> FALSE] : st \in StatsValues}
    \cup {[fn |-> "stats", arg |-> rs, done |-> FALSE] : rs \in StatsInputs}

InitCalc == InitBase /\ calc \in CalcInputs

(* the tail of getWeeklySummaryFromStorage() on the buckets in calc.arg *)
Summarize ==
    /\ calc.fn = "weekly" /\ ~calc.done
    /\ calc' = [fn |-> "weekly", arg |-> calc.arg, done |-> TRUE,
                out |-> weeklySummaryOf(calc.arg)]
    /\ UNCHANGED <<now, ticks, recordsRaw, achRaw, todayStats, badges, last, tabs, game, logic, recordsTab, card>>

(* computeStats(getRecords()) on a store that holds the records calc.arg *)
ComputeStats ==
    /\ calc.fn = "stats" /\ ~calc.done
    /\ calc' = [fn |-> "stats", arg |-> calc.arg, done |-> TRUE,
                out |-> computeStats(stringifyRecords(calc.arg), now)]
    /\ UNCHANGED <<now, ticks, recordsRaw, achRaw, todayStats, badges, last, tabs, game, logic, recordsTab, card>>

(* BADGES.map(b => b.check(stats)) on the Stats in calc.arg *)
CheckBadges ==
    /\ calc.fn = "badges" /\ ~calc.done
    /\ calc' = [fn |-> "badges", arg |-> calc.arg, done |-> TRUE,
                out |-> [id \in BadgeIds |-> badgeCheck(id, calc.arg)]]
    /\ UNCHANGED <<now, ticks, recordsRaw, achRaw, todayStats, badges, last, tabs, game, logic, recordsTab, card>>

(* exportRecordsToCSV() on a store that holds the records calc.arg *)
ExportCsv ==
    /\ calc.fn = "csv" /\ ~calc.done
    /\ calc' = [fn |-> "csv", arg |-> calc.arg, done |-> TRUE,
                out |-> exportRecordsToCSV(stringifyRecords(calc.arg))]
    /\ UNCHANGED <<now, ticks, recordsRaw, achRaw, todayStats, badges, last, tabs, game, logic, recordsTab, card>>

(* the parent centre at time calc.arg.at over a store that holds the       *)
(* records calc.arg.records: getWeeklySummaryFromStorage() with its byDay    *)
(* buckets for the overview, getRecordsWithinDays(7) for the records tab     *)
ReadWeek ==
    /\ calc.fn = "week" /\ ~calc.done
    /\ calc' = [fn |-> "week", arg |-> calc.arg, done |-> TRUE,
                out |-> [byDay |-> byDay(stringifyRecords(calc.arg.records), calc.arg.at),
                         summary |-> getWeeklySummaryFromStorage(
                                         stringifyRecords(calc.arg.records), calc.arg.at),
                         within7 |-> getRecordsWithinDays(
                                         stringifyRecords(calc.arg.records), calc.arg.at, 7)]]
    /\ UNCHANGED <<now, ticks, recordsRaw, achRaw, todayStats, badges, last, tabs, game, logic, recordsTab, card>>

NextCalc ==
    \/ ReadWeek
    \/ Summarize
    \/ ComputeStats
    \/ CheckBadges
    \/ ExportCsv

SpecCalc == InitCalc /\ [][NextCalc]_vars

----------------------------------------------------------------------------
(* MathQuickGame.  A click on a choice commits the answer and schedules     *)
(* goNext by setTimeout; the scheduled goNext is the one of the render in   *)
(* which the click happened, so it sees that render's index and answers.    *)
(* answers holds the `correct` flag of each committed answer.  The session  *)
(* duration is not followed here: elapsedMs is reported as measured on a    *)
(* clock that stands still.                                                 *)

closureOf(g) == [index |-> g.index, answers |-> g.answers]

RECURSIVE countCorrect(_)
countCorrect(as) ==
    IF as = << >> THEN 0
    ELSE (IF Head(as) THEN 1 ELSE 0) + countCorrect(Tail(as))

RemoveAt(s, i) == SubSeq(s, 1, i - 1) \o SubSeq(s, i + 1, Len(s))

(* render: q = questions[index]; q.text is read while the game is not       *)
(* finished, which throws once index is past the last question              *)
renderThrows(g) == ~g.finished /\ g.index >= QuestionCount

(* the drawer opens the game; timed is timedPerQuestionSec *)
StartGame(timed) ==
    /\ ~game.mounted
    /\ game' = [game EXCEPT !.mounted = TRUE, !.timed = timed, !.timeLeft = timed]
    /\ last' = lastOf("other", NoRecord)
    /\ UNCHANGED <<now, ticks, recordsRaw, achRaw, todayStats, badges, tabs, calc, logic, recordsTab, card>>

(* commitAnswer(pick): setAnswers(arr => [...arr, {pick, correct, ...}]) *)
commitAnswer(g, correct) == [g EXCEPT !.answers = Append(@, correct)]

(* onClick of a choice: if (paused) return; commitAnswer(c); setTimeout(goNext) *)
ClickChoice(correct) ==
    /\ game.mounted /\ ~game.finished
    /\ ~game.paused
    /\ Len(game.answers) < MaxAnswers
    /\ game' = [commitAnswer(game, correct) EXCEPT !.timers = Append(@, closureOf(game))]
    /\ last' = lastOf("other", NoRecord)
    /\ UNCHANGED <<now, ticks, recordsRaw, achRaw, todayStats, badges, tabs, calc, logic, recordsTab, card>>

(* the effects that follow a change of index: timeLeft is set back to       *)
(* timedPerQuestionSec, and a change of timeLeft clears the timeout that    *)
(* the timeout effect had set                                               *)
afterIndexChange(g) ==
    [g EXCEPT !.timeLeft = g.timed,
              !.effectTimer = IF g.timeLeft # g.timed THEN << >> ELSE @]

(* the component after a render that throws is unmounted: its interval and  *)
(* its effect timeout are cleared, the timeouts set by clicks stay pending  *)
afterRender(g) ==
    IF renderThrows(g) THEN [g EXCEPT !.mounted = FALSE, !.effectTimer = << >>] ELSE g

(* goNext() of the render captured in cl, run on the component state g:     *)
(* the state after it, and whether it called onFinish                       *)
goNextFinishes(cl) == cl.index + 1 >= QuestionCount

goNext(g, cl) ==
    IF goNextFinishes(cl)
    THEN IF g.mounted THEN [g EXCEPT !.finished = TRUE] ELSE g
    ELSE IF g.mounted THEN afterRender(afterIndexChange([g EXCEPT !.index = @ + 1])) ELSE g

goNextStep(g, cl) ==
    /\ game' = goNext(g, cl)
    /\ IF goNextFinishes(cl)
       THEN /\ onFinishEffect(MathModule, countCorrect(cl.answers), QuestionCount, 0)
            /\ UNCHANGED <<now, ticks, achRaw, badges, tabs, calc, logic, recordsTab, card>>
       ELSE /\ last' = lastOf("other", NoRecord)
            /\ UNCHANGED <<now, ticks, recordsRaw, achRaw, todayStats, badges, tabs, calc, logic, recordsTab, card>>

(* a timeout set by a click fires *)
ClickTimerFires(i) ==
    /\ i \in 1..Len(game.timers)
    /\ goNextStep([game EXCEPT !.timers = RemoveAt(@, i)], game.timers[i])

(* the timeout set by the timeout effect fires *)
EffectTimerFires ==
    /\ game.effectTimer # << >>
    /\ goNextStep([game EXCEPT !.effectTimer = << >>], game.effectTimer[1])

(* the one-second interval: setTimeLeft(s => s <= 0 ? 0 : s - 1); when      *)
(* timeLeft reaches 0 the timeout effect commits a null answer and sets     *)
(* a timeout for goNext                                                     *)
IntervalTick ==
    /\ game.mounted /\ game.timed > 0 /\ ~game.paused
    /\ game.timeLeft > 0
    /\ Len(game.answers) < MaxAnswers
    /\ LET g == [game EXCEPT !.timeLeft = @ - 1, !.effectTimer = << >>]
       IN  game' = IF g.timeLeft <= 0 /\ ~g.finished
                   THEN [commitAnswer(g, FALSE) EXCEPT !.effectTimer = <<closureOf(g)>>]
                   ELSE g
    /\ last' = lastOf("other", NoRecord)
    /\ UNCHANGED <<now, ticks, recordsRaw, achRaw, todayStats, badges, tabs, calc, logic, recordsTab, card>>

(* togglePause *)
TogglePause ==
    /\ game.mounted
    /\ game' = [game EXCEPT !.paused = ~@]
    /\ last' = lastOf("other", NoRecord)
    /\ UNCHANGED <<now, ticks, recordsRaw, achRaw, todayStats, badges, tabs, calc, logic, recordsTab, card>>

NextGame ==
    \/ \E timed \in {0, TimedSec} : StartGame(timed)
    \/ \E correct \in BOOLEAN : ClickChoice(correct)
    \/ \E i \in 1..MaxAnswers : ClickTimerFires(i)
    \/ EffectTimerFires
    \/ IntervalTick
    \/ TogglePause

SpecGame == Init /\ [][NextGame]_vars

-----------------------------------------------------------------------------
(* LogicTrainingGame: the rounds of one mounted instance.  The instance is   *)
(* mounted in Init with its first round drawn and marked as used.           *)

(* a click on a difficulty button: the draw, and the effect on [indices]
   that adds the new round to usedRef after the render.  before keeps the
   usedRef the draw was made from, that is the questions of earlier rounds *)
switchLevel(lv) ==
    /\ logic' = [level |-> lv,
                 indices |-> pickIndices(lv, logic.used, count),
                 used |-> logic.used \cup idsOf(pickIndices(lv, logic.used, count)),
                 before |-> logic.used]
    /\ UNCHANGED <<now, ticks, recordsRaw, achRaw, todayStats, badges, last, tabs, game, calc, recordsTab, card>>

NextLogic == \E lv \in Levels : switchLevel(lv)

SpecLogic == Init /\ [][NextLogic]_vars

-----------------------------------------------------------------------------
(* Parent centre, RecordsTab: the filters, the list memo and the clear      *)
(* button.  The drawer shows either a game or the parent centre, so         *)
(* sessions end while the tab is not mounted.                               *)

DayRanges == {7, 30, 90}

(* the list memo: computed when the tab mounts and when days or module change *)
list(raw, t, days, module) ==
    LET base == sortNewestFirst(getRecordsWithinDays(raw, t, days))
        ofModule(r) == r.module = module
    IN  IF module = AllModules THEN base ELSE SelectSeq(base, ofModule)

OpenRecordsTab ==
    /\ ~recordsTab.mounted
    /\ recordsTab' = [mounted |-> TRUE, days |-> 7, module |-> AllModules,
                      modules |-> {AllModules} \cup getModulesFromRecords(recordsRaw),
                      list |-> list(recordsRaw, now, 7, AllModules)]
    /\ last' = lastOf("other", NoRecord)
    /\ UNCHANGED <<now, ticks, recordsRaw, achRaw, todayStats, badges, tabs, game, calc, logic, card>>

CloseRecordsTab ==
    /\ recordsTab.mounted
    /\ recordsTab' = [mounted |-> FALSE, days |-> 7, module |-> AllModules,
                      modules |-> {AllModules}, list |-> << >>]
    /\ last' = lastOf("other", NoRecord)
    /\ UNCHANGED <<now, ticks, recordsRaw, achRaw, todayStats, badges, tabs, game, calc, logic, card>>

(* the day-range select *)
setDays(d) ==
    /\ recordsTab.mounted
    /\ d # recordsTab.days
    /\ recordsTab' = [recordsTab EXCEPT
                          !.days = d,
                          !.list = list(recordsRaw, now, d, recordsTab.module)]
    /\ last' = lastOf("other", NoRecord)
    /\ UNCHANGED <<now, ticks, recordsRaw, achRaw, todayStats, badges, tabs, game, calc, logic, card>>

(* the module select, whose options are the modules memo of the mount *)
setModule(m) ==
    /\ recordsTab.mounted
    /\ m \in recordsTab.modules
    /\ m # recordsTab.module
    /\ recordsTab' = [recordsTab EXCEPT
                          !.module = m,
                          !.list = list(recordsRaw, now, recordsTab.days, m)]
    /\ last' = lastOf("other", NoRecord)
    /\ UNCHANGED <<now, ticks, recordsRaw, achRaw, todayStats, badges, tabs, game, calc, logic, card>>

(* the clear button: after window.confirm, clearRecords(), setModule('全部')
   and setDays(7).  The list memo is computed again only when one of its
   dependencies [days, module] has changed; setting a state to the value it
   has changes nothing. *)
onClear(confirmed) ==
    /\ recordsTab.mounted
    /\ IF confirmed
       THEN LET slots == clearRecords([records |-> recordsRaw, ach |-> achRaw])
                changed == recordsTab.days # 7 \/ recordsTab.module # AllModules
            IN  /\ recordsRaw' = slots.records
                /\ achRaw' = slots.ach
                /\ recordsTab' = [recordsTab EXCEPT
                                      !.module = AllModules,
                                      !.days = 7,
                                      !.list = IF changed
                                               THEN list(slots.records, now, 7, AllModules)
                                               ELSE @]
                /\ last' = [lastOf("onClear", NoRecord) EXCEPT
                                !.wasEmpty = (getRecords(recordsRaw) = << >>)]
       ELSE /\ last' = lastOf("other", NoRecord)
            /\ UNCHANGED <<recordsRaw, achRaw, recordsTab>>
    /\ UNCHANGED <<now, ticks, todayStats, badges, tabs, game, calc, logic, card>>

NextRecordsTab ==
    \/ \E d \in Advances : Tick(d)
    \/ \E s \in Sessions : ~recordsTab.mounted /\ onFinish(s[1], s[2], s[3], s[4])
    \/ OpenRecordsTab
    \/ CloseRecordsTab
    \/ \E d \in DayRanges : setDays(d)
    \/ \E m \in Modules \cup {AllModules} : setModule(m)
    \/ \E confirmed \in BOOLEAN : onClear(confirmed)

SpecRecordsTab == Init /\ [][NextRecordsTab]_vars

----------------------------------------------------------------------------
(* ModuleCard: a press on the card, its long-press timer of LONG_PRESS_MS   *)
(* and the info bubble.  window.setTimeout gives the ids 1, 2, ...; pending *)
(* holds the ids of the timeouts that are set and have neither fired nor    *)
(* been cleared.  clicks counts the calls of the onClick prop; fired tells  *)
(* whether the timer of the current press has fired.                        *)

(* clearTimer(): clears and forgets the timeout held in timerRef, if any *)
clearTimer(c) ==
    IF c.timerRef # NoTimer
    THEN [c EXCEPT !.pending = @ \ {c.timerRef}, !.timerRef = NoTimer]
    ELSE c

onPointerDown ==
    /\ ~card.pressed
    /\ card.nextId <= MaxPresses
    /\ card' = [clearTimer(card) EXCEPT
                    !.timerRef = card.nextId,
                    !.pending = @ \cup {card.nextId},
                    !.nextId = @ + 1,
                    !.pressed = TRUE,
                    !.fired = FALSE]
    /\ last' = lastOf("onPointerDown", NoRecord)
    /\ UNCHANGED <<now, ticks, recordsRaw, achRaw, todayStats, badges, tabs, game, calc, logic, recordsTab>>

(* the timeout callback, LONG_PRESS_MS after the press: setInfo(true) *)
LongPressTimerFires ==
    /\ \E id \in card.pending :
          card' = [card EXCEPT !.info = TRUE, !.pending = @ \ {id}, !.fired = card.pressed]
    /\ last' = lastOf("other", NoRecord)
    /\ UNCHANGED <<now, ticks, recordsRaw, achRaw, todayStats, badges, tabs, game, calc, logic, recordsTab>>

(* onPointerUp: if (timerRef.current) { clearTimer(); onClick?.() } *)
onPointerUp ==
    /\ card.pressed
    /\ card' = IF card.timerRef # NoTimer
               THEN [clearTimer(card) EXCEPT !.clicks = @ + 1, !.pressed = FALSE]
               ELSE [card EXCEPT !.pressed = FALSE]
    /\ last' = lastOf("onPointerUp", NoRecord)
    /\ UNCHANGED <<now, ticks, recordsRaw, achRaw, todayStats, badges, tabs, game, calc, logic, recordsTab>>

(* onPointerCancel, also bound to onPointerLeave *)
onPointerCancel ==
    /\ card.pressed
    /\ card' = [clearTimer(card) EXCEPT !.pressed = FALSE]
    /\ last' = lastOf("onPointerCancel", NoRecord)
    /\ UNCHANGED <<now, ticks, recordsRaw, achRaw, todayStats, badges, tabs, game, calc, logic, recordsTab>>

(* the bubble is dismissed *)
hideInfo ==
    /\ card.info /\ ~card.pressed
    /\ card' = [card EXCEPT !.info = FALSE]
    /\ last' = lastOf("other", NoRecord)
    /\ UNCHANGED <<now, ticks, recordsRaw, achRaw, todayStats, badges, tabs, game, calc, logic, recordsTab>>

(* onKeyDown with Enter or the space bar: onClick?.() *)
onKeyDown ==
    /\ card.clicks < MaxPresses
    /\ card' = [card EXCEPT !.clicks = @ + 1]
    /\ last' = lastOf("onKeyDown", NoRecord)
    /\ UNCHANGED <<now, ticks, recordsRaw, achRaw, todayStats, badges, tabs, game, calc, logic, recordsTab>>

NextCard ==
    \/ onKeyDown
    \/ onPointerDown
    \/ LongPressTimerFires
    \/ onPointerUp
    \/ onPointerCancel
    \/ hideInfo

SpecCard == Init /\ [][NextCard]_vars

----------------------------------------------------------------------------
(* The read and summary functions called on the store as it is, next to     *)
(* sessions, clears and evaluations.  What the call returned is kept in     *)
(* last until the next handler runs.                                        *)

Returns(fn, out) ==
    /\ last' = [op |-> "Read", rec |-> NoRecord, threw |-> FALSE, wasEmpty |-> FALSE,
                fn |-> fn, out |-> out]
    /\ UNCHANGED <<now, ticks, recordsRaw, achRaw, todayStats, badges, tabs, game, calc, logic, recordsTab, card>>

ReadAll == Returns("getRecords", getRecords(recordsRaw))

ReadRecent == Returns("getRecentRecords", getRecentRecords(recordsRaw, 3))

ReadWithinDays(days) ==
    Returns("getRecordsWithinDays", getRecordsWithinDays(recordsRaw, now, days))

DistinctModules == Returns("getModulesFromRecords", getModulesFromRecords(recordsRaw))

(* the module names of the games, character by character as the export     *)
(* reads them                                                               *)
charsOf(m) ==
    IF m = MathModule THEN <<"m", "a", "t", "h">> ELSE <<"l", "o", "g", "i", "c">>

spelledOut(raw) ==
    stringifyRecords([i \in 1..Len(getRecords(raw)) |->
                         [getRecords(raw)[i] EXCEPT !.module = charsOf(@)]])

ExportCSV == Returns("exportRecordsToCSV", exportRecordsToCSV(spelledOut(recordsRaw)))

WeeklySummary ==
    Returns("getWeeklySummaryFromStorage", getWeeklySummaryFromStorage(recordsRaw, now))

NextReads ==
    \/ Tick(1)
    \/ \E s \in Sessions : onFinish(s[1], s[2], s[3], s[4])
    \/ Clear
    \/ Evaluate
    \/ ReadAll
    \/ ReadRecent
    \/ \E days \in DayRanges : ReadWithinDays(days)
    \/ DistinctModules
    \/ ExportCSV
    \/ WeeklySummary

SpecReads == Init /\ [][NextReads]_vars

----------------------------------------------------------------------------
(* Properties of the record store *)

isArraySlot(raw) == raw.k = "json" /\ raw.v.t = "arr"

(* C1: Append/Read round trip.  Whatever the records slot held before,      *)
(* a step that appends record r leaves a store whose read is one element    *)
(* longer than the read before the step and ends with r.                    *)
C1_AppendReadRoundTrip ==
    [][last'.op = "Append" =>
        LET before == getRecords(recordsRaw)
            after == getRecords(recordsRaw')
        IN  /\ Len(after) = Len(before) + 1
            /\ after[Len(after)] = last'.rec]_vars

(* an append onto a slot that held a record and an invalid element *)
C1_Witness ==
    /\ last.op = "Append"
    /\ Len(getRecords(recordsRaw)) = 2
    /\ getRecords(recordsRaw)[2] = last.rec
    /\ getRecords(recordsRaw)[1] # last.rec

(* C8: corrupt-storage safety.  With the slot absent, holding text that is  *)
(* not JSON, or holding JSON that is not an array, the read is empty and    *)
(* no error leaves getRecords.                                              *)
C8_CorruptReadsEmpty ==
    ~isArraySlot(recordsRaw) =>
        getRecordsOutcome(recordsRaw) = [threw |-> FALSE, records |-> << >>]

(* the slot holds text that JSON.parse rejects *)
C8_Witness == recordsRaw.k = "text" /\ recordsRaw.s # ""

(* C9 as stated: an array with an element lacking a numeric timestamp       *)
(* reads as the empty sequence.                                             *)
C9_InvalidElementEmptiesRead ==
    (isArraySlot(recordsRaw) /\ \E i \in 1..Len(recordsRaw.v.xs) : isInvalid(recordsRaw.v.xs[i]))
        => getRecords(recordsRaw) = << >>

(* C9 amended: the read of a stored array is empty only when no element     *)
(* has a numeric timestamp; the elements lacking one are left out and the   *)
(* others are returned, as many as are stored.                              *)
C9_EmptyOnlyWithoutValidElement ==
    isArraySlot(recordsRaw) =>
        LET xs == recordsRaw.v.xs
            invalid == {i \in 1..Len(xs) : isInvalid(xs[i])}
        IN  /\ Len(getRecords(recordsRaw)) = Len(xs) - Cardinality(invalid)
            /\ (getRecords(recordsRaw) = << >>) <=> (invalid = 1..Len(xs))

(* a stored array with one invalid element and one record, read as one record *)
C9_Witness ==
    /\ isArraySlot(recordsRaw)
    /\ Len(recordsRaw.v.xs) = 2
    /\ \E i \in 1..2 : isInvalid(recordsRaw.v.xs[i])
    /\ Len(getRecords(recordsRaw)) = 1

(* C11: a rejected write.  When setItem fails during an append, no error   *)
(* leaves addRecord and the records slot is left as it was, so that the      *)
(* read after the call is the read before it, without the new record.        *)
C11_RejectedWriteLeavesStore ==
    [][last'.op = "AppendRejected" =>
        /\ ~last'.threw
        /\ recordsRaw' = recordsRaw
        /\ getRecords(recordsRaw') = getRecords(recordsRaw)]_vars

(* a write was rejected on a store that holds a record of another session *)
C11_Witness ==
    /\ last.op = "AppendRejected"
    /\ Len(getRecords(recordsRaw)) = 1
    /\ getRecords(recordsRaw)[1] # last.rec

(* C19: Clear is idempotent.  After a Clear the read is empty, whatever    *)
(* the slot held, a Clear of an empty store included, and a further Clear   *)
(* would leave both slots as they are.                                      *)
C19_ClearIdempotent ==
    [][last'.op = "Clear" =>
        LET after == [records |-> recordsRaw', ach |-> achRaw']
        IN  /\ getRecords(recordsRaw') = << >>
            /\ clearRecords(after) = after]_vars

(* a Clear of a store that read as empty *)
C19_Witness ==
    /\ last.op = "Clear"
    /\ last.wasEmpty
    /\ recordsRaw = Absent

----------------------------------------------------------------------------
(* Properties of the weekly summary *)

(* C12: streakDays is the length of the run of days with minutes > 0 that   *)
(* ends today: the last streakDays days all have minutes, the day before    *)
(* them, if it is in the window, has none (so the streak is 0 when today    *)
(* has none), and the week 5, 0, 3, 4, 0, 6, 7 has the streak 2.            *)
C12_StreakEndsToday ==
    (calc.fn = "weekly" /\ calc.done) =>
        LET w == calc.out.weekly
            k == calc.out.streakDays
        IN  /\ k \in 0..7
            /\ \A i \in (8 - k)..7 : w[i].minutes > 0
            /\ k < 7 => w[7 - k].minutes = 0
            /\ calc.arg = StreakExample => k = 2

(* the summary of the week 5, 0, 3, 4, 0, 6, 7 *)
C12_Witness ==
    /\ calc.fn = "weekly" /\ calc.done
    /\ calc.arg = StreakExample
    /\ calc.out.streakDays = 2

(* C13: avgCorrectRate is the average of the seven daily correctRate        *)
(* values, each weighted by the day's minutes when the week has minutes     *)
(* and all weighted alike when it has none, as a percentage rounded to the  *)
(* nearest integer (a half upwards); 10 minutes at 0.5 and 30 minutes at    *)
(* 0.9 give 80.  The rates are counted in hundredths.                       *)
C13_AvgCorrectRate ==
    (calc.fn = "weekly" /\ calc.done) =>
        LET w == calc.out.weekly
            a == calc.out.avgCorrectRate
            M == w[1].minutes + w[2].minutes + w[3].minutes + w[4].minutes
                 + w[5].minutes + w[6].minutes + w[7].minutes
            W == w[1].correctRate * w[1].minutes + w[2].correctRate * w[2].minutes
                 + w[3].correctRate * w[3].minutes + w[4].correctRate * w[4].minutes
                 + w[5].correctRate * w[5].minutes + w[6].correctRate * w[6].minutes
                 + w[7].correctRate * w[7].minutes
            S == w[1].correctRate + w[2].correctRate + w[3].correctRate + w[4].correctRate
                 + w[5].correctRate + w[6].correctRate + w[7].correctRate
        IN  /\ calc.out.totalMinutes = M
            /\ M > 0 => (2 * a * M - M <= 2 * W /\ 2 * W < 2 * a * M + M)
            /\ M = 0 => (2 * a * 7 - 7 <= 2 * S /\ 2 * S < 2 * a * 7 + 7)
            /\ (M = 40 /\ W = 10 * 50 + 30 * 90) => a = 80

(* a week of one day of 10 minutes at 0.5 and one of 30 minutes at 0.9 *)
C13_Witness ==
    /\ calc.fn = "weekly" /\ calc.done
    /\ calc.out.totalMinutes = 40
    /\ \E i, j \in 1..7 :
          /\ calc.out.weekly[i] = [minutes |-> 10, correctRate |-> 50]
          /\ calc.out.weekly[j] = [minutes |-> 30, correctRate |-> 90]
    /\ calc.out.avgCorrectRate = 80

----------------------------------------------------------------------------
(* Properties of the statistics *)

(* C14: the Stats of the stored records: sessions is their number,         *)
(* totalAnswered and totalCorrect are the sums of total and of score,       *)
(* bestAccuracy is the largest score/total of a single record, a record     *)
(* with total 0 counting as 0 (and 0 without records), and moduleCounts     *)
(* gives for each module the number of its records.                         *)
C14_StatsOfRecords ==
    (calc.fn = "stats" /\ calc.done) =>
        LET rs == calc.arg
            st == calc.out
            idx == 1..Len(rs)
            n == st.bestAccuracy[1]
            d == st.bestAccuracy[2]
        IN  /\ st.sessions = Len(rs)
            /\ st.totalAnswered =
                  Cardinality({p \in idx \X (1..10) : p[2] <= rs[p[1]].total})
            /\ st.totalCorrect =
                  Cardinality({p \in idx \X (1..10) : p[2] <= rs[p[1]].score})
            /\ d > 0 /\ n >= 0
            /\ \A i \in idx : rs[i].total > 0 => n * rs[i].total >= rs[i].score * d
            /\ n = 0 \/ \E i \in idx : rs[i].total > 0 /\ n * rs[i].total = rs[i].score * d
            /\ DOMAIN st.moduleCounts = {rs[i].module : i \in idx}
            /\ \A m \in DOMAIN st.moduleCounts :
                  st.moduleCounts[m] = Cardinality({i \in idx : rs[i].module = m})

(* the Stats of two records, 1 of 2 and 9 of 10, of different modules *)
C14_Witness ==
    /\ calc.fn = "stats" /\ calc.done
    /\ Len(calc.arg) = 2
    /\ calc.arg[1].module # calc.arg[2].module
    /\ calc.out.totalAnswered = 12 /\ calc.out.totalCorrect = 10
    /\ calc.out.bestAccuracy = <<9, 10>>

(* C15: the badge checks have the fixed thresholds: starter-1 from 1       *)
(* session, ten-sessions from 10, hundred-answers from 100 answers,         *)
(* accuracy-90 from a best accuracy of 0.9, streak-3 from 3 streak days,    *)
(* math-3 from 3 records of the arithmetic module; with 3 sessions, all     *)
(* of that module, math-3 is unlocked and ten-sessions is locked at the     *)
(* progress 0.3.                                                            *)
C15_BadgeThresholds ==
    (calc.fn = "badges" /\ calc.done) =>
        LET s == calc.arg
            b == calc.out
            math == IF MathModule \in DOMAIN s.moduleCounts
                    THEN s.moduleCounts[MathModule] ELSE 0
        IN  /\ b["starter-1"].unlocked <=> s.sessions >= 1
            /\ b["ten-sessions"].unlocked <=> s.sessions >= 10
            /\ b["hundred-answers"].unlocked <=> s.totalAnswered >= 100
            /\ b["accuracy-90"].unlocked <=> 10 * s.bestAccuracy[1] >= 9 * s.bestAccuracy[2]
            /\ b["streak-3"].unlocked <=> s.streakDays >= 3
            /\ b["math-3"].unlocked <=> math >= 3
            /\ (s.sessions = 3 /\ math = 3) =>
                  /\ b["math-3"].unlocked
                  /\ ~b["ten-sessions"].unlocked
                  /\ 10 * b["ten-sessions"].progress[1] = 3 * b["ten-sessions"].progress[2]

(* the checks on 3 sessions, all of the arithmetic module *)
C15_Witness ==
    /\ calc.fn = "badges" /\ calc.done
    /\ calc.arg.sessions = 3
    /\ calc.arg.moduleCounts = [m \in {MathModule} |-> 3]
    /\ calc.out["math-3"].unlocked
    /\ calc.out["ten-sessions"] = [unlocked |-> FALSE, progress |-> <<3, 10>>]

----------------------------------------------------------------------------
(* Properties of the export *)

(* A reader of CSV text.  A character stands outside of quoted fields     *)
(* when the number of quotes before it is even (an enclosing quote and the  *)
(* two halves of a doubled quote each count).  A line break outside of      *)
(* quotes ends a row, a comma outside of quotes ends a field, and a field   *)
(* that opens with a quote stands for what is between its enclosing         *)
(* quotes, each doubled quote being one quote.                              *)
quotesBefore(text, i) == Cardinality({j \in 1..(i - 1) : text[j] = Quote})

nthOf(S, k) == CHOOSE x \in S : Cardinality({y \in S : y <= x}) = k

splitOutsideQuotes(text, c) ==
    LET cuts == {i \in 1..Len(text) : text[i] = c /\ quotesBefore(text, i) % 2 = 0}
        n == Cardinality(cuts)
        startOf(k) == IF k = 1 THEN 1 ELSE nthOf(cuts, k - 1) + 1
        endOf(k) == IF k = n + 1 THEN Len(text) ELSE nthOf(cuts, k) - 1
    IN  [k \in 1..(n + 1) |-> SubSeq(text, startOf(k), endOf(k))]

RECURSIVE undouble(_)
undouble(v) ==
    IF v = << >> THEN << >>
    ELSE IF Head(v) = Quote THEN <<Quote>> \o undouble(SubSeq(v, 3, Len(v)))
    ELSE <<Head(v)>> \o undouble(Tail(v))

unquote(f) ==
    IF f # << >> /\ f[1] = Quote THEN undouble(SubSeq(f, 2, Len(f) - 1)) ELSE f

readCsv(text) ==
    LET lines == splitOutsideQuotes(text, LineBreak)
    IN  [r \in 1..Len(lines) |->
            LET fields == splitOutsideQuotes(lines[r], Comma)
            IN  [k \in 1..Len(fields) |-> unquote(fields[k])]]

(* C20: the export is the header row followed by one row per stored        *)
(* record, in store order, that reads back as the record's values; the      *)
(* module is written with two enclosing quotes and every quote in it        *)
(* doubled exactly when it holds a comma, a quote or a line break, and      *)
(* as it is otherwise; A,"B" is written "A,""B""".                          *)
C20_CsvRows ==
    (calc.fn = "csv" /\ calc.done) =>
        LET rs == calc.arg
            text == calc.out
            rows == readCsv(text)
            special(m) == \E i \in 1..Len(m) : m[i] \in {",", "\"", "\n"}
            quotes(m) == Cardinality({i \in 1..Len(m) : m[i] = "\""})
            written(m) == Len(m) + (IF special(m) THEN 2 + quotes(m) ELSE 0)
            lineLen(i) == 1 + written(rs[i].module) + 16
        IN  /\ Len(rows) = 1 + Len(rs)
            /\ rows[1] = csvHeader
            /\ \A i \in 1..Len(rs) :
                  rows[i + 1] = <<rs[i].module, <<"1">>, <<"2">>, <<"2", "0", "0", "0", "0">>,
                                  <<"1">>, <<"T", "1", "Z">> >>
            /\ Len(text) =
                  42 + Cardinality({p \in (1..Len(rs)) \X (1..40) : p[2] <= lineLen(p[1])})
            /\ (Len(rs) = 1 /\ rs[1].module = <<"A", ",", "\"", "B", "\"">>) =>
                  SubSeq(text, 44, 52) = <<"\"", "A", ",", "\"", "\"", "B", "\"", "\"", "\"">>

(* the export of two records, the first of module A,"B" and the second     *)
(* of a module with a line break, read back as three rows                   *)
C20_Witness ==
    /\ calc.fn = "csv" /\ calc.done
    /\ Len(calc.arg) = 2
    /\ calc.arg[1].module = CsvExampleModule
    /\ calc.arg[2].module = <<"A", LineBreak, "B">>
    /\ Len(readCsv(calc.out)) = 3

----------------------------------------------------------------------------
(* Properties of the "today" view and of the achievements *)

(* C7: the minutes the home page shows for today, right after it computed   *)
(* them, are the sum of max(1, round(elapsedMs/60000)) over all stored      *)
(* records of the current calendar day.                                     *)
C7_TodayIsCalendarDay ==
    last.op \in {"Append", "HomeMount"} =>
        LET isToday(r) == toDateKey(r.timestamp) = toDateKey(now)
        IN  todayStats.minutes = SumTodayMinutes(SelectSeq(getRecords(recordsRaw), isToday))

(* C18: the one-day window reaches back 24 hours: every stored record      *)
(* stamped before now and less than 24 hours ago is among the records       *)
(* getRecordsWithinDays(1) returns.                                         *)
C18_OneDayWindowReaches24h ==
    LET rs == getRecords(recordsRaw)
        within == getRecordsWithinDays(recordsRaw, now, 1)
    IN  \A i \in 1..Len(rs) :
            (rs[i].timestamp < now /\ now - rs[i].timestamp < DayMs)
                => \E j \in 1..Len(within) : within[j] = rs[i]

(* C16: whatever was appended and cleared before, an evaluation of the     *)
(* store returns as points the sum of score over the stored records and     *)
(* as level floor(points / 50) + 1, which is at least 1.                    *)
C16_PointsAndLevel ==
    LET res == getAchievementsState(recordsRaw, achRaw, now)
        rs == getRecords(recordsRaw)
    IN  /\ res.points = Cardinality({p \in (1..Len(rs)) \X (1..50) : p[2] <= rs[p[1]].score})
        /\ res.level >= 1
        /\ 50 * (res.level - 1) <= res.points
        /\ res.points < 50 * res.level

(* an evaluation that returned 50 points and level 2 for a store that was   *)
(* cleared after it had held 100 answers                                    *)
C16_Witness ==
    /\ last.op = "Evaluate"
    /\ "hundred-answers" \in DOMAIN getUnlockedMap(achRaw)
    /\ ~badges["hundred-answers"].unlocked
    /\ getAchievementsState(recordsRaw, achRaw, now).points = 50
    /\ getAchievementsState(recordsRaw, achRaw, now).level = 2

(* C2: achievement stickiness.  A badge reported unlocked by an evaluation  *)
(* is reported unlocked by the next evaluation, and so by every later one.  *)
C2_UnlockedStaysUnlocked ==
    [][\A id \in BadgeIds : badges[id].unlocked => badges'[id].unlocked]_vars

(* C3: the persisted unlock map is monotonic: no step changes or removes    *)
(* an entry it holds.                                                       *)
C3_UnlockMapMonotonic ==
    [][LET before == getUnlockedMap(achRaw)
           after == getUnlockedMap(achRaw')
       IN  \A id \in DOMAIN before : id \in DOMAIN after /\ after[id] = before[id]]_vars

(* an evaluation, later than the unlock and after the records were cleared, *)
(* found the badge's check false and kept its entry                         *)
C3_Witness ==
    /\ last.op = "Evaluate"
    /\ \E id \in DOMAIN getUnlockedMap(achRaw) :
          /\ getUnlockedMap(achRaw)[id] < now
          /\ ~badges[id].unlocked

(* C4: Clear leaves the achievements slot as it was. *)
C4_ClearKeepsAchievements ==
    [][last'.op = "Clear" =>
        /\ achRaw' = achRaw
        /\ getUnlockedMap(achRaw') = getUnlockedMap(achRaw)]_vars

(* the records were cleared and a badge is still recorded as unlocked *)
C4_Witness ==
    /\ last.op = "Clear"
    /\ getRecords(recordsRaw) = << >>
    /\ DOMAIN getUnlockedMap(achRaw) # {}

isStored(r) == \E i \in 1..Len(getRecords(recordsRaw)) : getRecords(recordsRaw)[i] = r

(* C10: lost update across tabs.  When both tabs had read the store before  *)
(* either wrote and both have then written, exactly one of their two new    *)
(* records is stored; as long as only one tab appends, the store holds all  *)
(* its records in call order.                                               *)
C10_LostUpdateAcrossTabs ==
    /\ (tabs.race /\ \A t \in Tabs : tabs.pc[t] = "idle") =>
          LET r1 == tabs.written[1][Len(tabs.written[1])]
              r2 == tabs.written[2][Len(tabs.written[2])]
          IN  (isStored(r1) /\ ~isStored(r2)) \/ (isStored(r2) /\ ~isStored(r1))
    /\ \A t \in Tabs :
          (tabs.pc[t] = "idle" /\ tabs.pc[otherTab(t)] = "idle" /\ tabs.written[otherTab(t)] = << >>)
              => getRecords(recordsRaw) = tabs.written[t]

(* both tabs read, then both wrote *)
C10_Witness ==
    /\ tabs.race
    /\ \A t \in Tabs : tabs.pc[t] = "idle" /\ tabs.written[t] # << >>
    /\ Len(getRecords(recordsRaw)) = 1

----------------------------------------------------------------------------
(* Properties of a game session *)

(* C5: a game session appends exactly one record: never a second one, and   *)
(* one once the session is finished.                                        *)
C5_OneRecordPerSession ==
    /\ Len(getRecords(recordsRaw)) <= 1
    /\ game.finished => Len(getRecords(recordsRaw)) = 1

(* C17: every record the game's finish callback stores has                 *)
(* 0 <= score <= total and total >= 1, whatever the clicks, timeouts and    *)
(* pauses of the session were.                                              *)
C17_ScoreWithinTotal ==
    \A i \in 1..Len(getRecords(recordsRaw)) :
        LET r == getRecords(recordsRaw)[i]
        IN  0 <= r.score /\ r.score <= r.total /\ r.total >= 1

(* C6: the score of every record of the session is the number of correct    *)
(* answers committed in it, the answer to the last question included.       *)
C6_ScoreCountsEveryCorrectAnswer ==
    game.finished =>
        \A i \in 1..Len(getRecords(recordsRaw)) :
            getRecords(recordsRaw)[i].score = countCorrect(game.answers)

(* C21: every round of the logic game, drawn at the start or after any      *)
(* sequence of difficulty switches, contains no question twice and no       *)
(* question of an earlier round of the same instance, also when the draw    *)
(* falls back to all unused questions.                                      *)
C21_RoundHasNoRepeat ==
    /\ \A i, j \in DOMAIN logic.indices :
           logic.indices[i] = logic.indices[j] => i = j
    /\ idsOf(logic.indices) \cap logic.before = {}

(* C22: elements without a numeric timestamp (null among them) are dropped  *)
(* when the store is read, and every other element is returned, in the      *)
(* order in which the elements are stored: the k-th record read is the      *)
(* k-th stored element that has a numeric timestamp.                        *)
C22_ValidElementsKeptInOrder ==
    isArraySlot(recordsRaw) =>
        LET xs == recordsRaw.v.xs
            valid == {i \in 1..Len(xs) : ~isInvalid(xs[i])}
            nth(k) == CHOOSE i \in valid : Cardinality({j \in valid : j < i}) = k - 1
            read == getRecords(recordsRaw)
        IN  /\ Len(read) = Cardinality(valid)
            /\ \A k \in 1..Len(read) : read[k] = recordFromJson(xs[nth(k)])

(* an invalid element stored between two different records, read as the two *)
C22_Witness ==
    /\ isArraySlot(recordsRaw)
    /\ Len(recordsRaw.v.xs) = 3
    /\ isInvalid(recordsRaw.v.xs[2])
    /\ getRecords(recordsRaw) =
           <<recordFromJson(recordsRaw.v.xs[1]), recordFromJson(recordsRaw.v.xs[3])>>
    /\ recordsRaw.v.xs[1] # recordsRaw.v.xs[3]

(* C23: when the user confirms Clear in the records tab, the displayed      *)
(* list is computed again from the emptied store and shows no record,       *)
(* whatever the day range and the module filter were before.                *)
C23_ListEmptyAfterClear ==
    [][last'.op = "onClear" => recordsTab'.list = << >>]_vars

(* C24: stored records are immutable.  The read before an append is a       *)
(* prefix of the read after it, which is one record longer; a rejected      *)
(* append and every other step but Clear leave the records read before      *)
(* in place, so that only Clear removes a record.                           *)
C24_ReadBeforeIsPrefix ==
    [][LET before == getRecords(recordsRaw)
           after == getRecords(recordsRaw')
           isPrefix == /\ Len(before) <= Len(after)
                       /\ \A i \in 1..Len(before) : after[i] = before[i]
       IN  /\ last'.op = "Append" => isPrefix /\ Len(after) = Len(before) + 1
           /\ last'.op # "Clear" => isPrefix]_vars

(* a second, different record was appended behind the first *)
C24_Witness ==
    /\ last.op = "Append"
    /\ Len(getRecords(recordsRaw)) = 2
    /\ getRecords(recordsRaw)[1].module # getRecords(recordsRaw)[2].module

(* C25: an evaluation adds an entry to the unlock map, stamped with the     *)
(* time of the evaluation, for exactly the badges whose check holds and     *)
(* that had no entry; it writes the map back every time; and an evaluation  *)
(* that follows with no append or clear in between, at the same time or     *)
(* later, leaves the persisted map as the first one wrote it.               *)
C25_EvaluationStampsOnce ==
    /\ [][last'.op = "Evaluate" =>
            LET before == getUnlockedMap(achRaw)
                after == getUnlockedMap(achRaw')
                stats == computeStats(recordsRaw, now)
                added == {id \in BadgeIds :
                             badgeCheck(id, stats).unlocked /\ id \notin DOMAIN before}
            IN  /\ DOMAIN after = DOMAIN before \cup added
                /\ \A id \in added : after[id] = now
                /\ \A id \in DOMAIN before : after[id] = before[id]
                /\ achRaw'.k = "json" /\ achRaw'.v.t = "obj"]_vars
    /\ [](last.op = "Evaluate" =>
            \A t \in {now} \cup {now + d : d \in Advances} :
                setUnlockedMap(getAchievementsState(recordsRaw, achRaw, t).unlockedMap)
                    = achRaw)

(* an evaluation that stamped one badge and left another without entry *)
C25_Witness ==
    /\ last.op = "Evaluate"
    /\ \E id \in DOMAIN getUnlockedMap(achRaw) : getUnlockedMap(achRaw)[id] = now
    /\ \E id \in BadgeIds : id \notin DOMAIN getUnlockedMap(achRaw)

(* C26: weekly bucketing.  Each stored record whose day key is one of the   *)
(* 7 tracked keys adds max(0, round(elapsedMs / 60000)) minutes (nothing    *)
(* for a session under 30 s), its score and its total to the bucket of      *)
(* that day and to no other; a record of another day changes no bucket;     *)
(* totalMinutes is the sum of the minutes of the 7 buckets.                 *)
C26_WeeklyBuckets ==
    (calc.fn = "week" /\ calc.done) =>
        LET rs == calc.arg.records
            keys == getLast7DayLabels(calc.arg.at)
            b == calc.out.byDay
            onDay(i) == {k \in 1..Len(rs) : rs[k].timestamp \div DayMs = keys[i]}
            tracked(r) == \E i \in 1..7 : r.timestamp \div DayMs = keys[i]
            mins(k) == CHOOSE m \in 0..3 :
                           /\ 2 * rs[k].elapsedMs >= (2 * m - 1) * MsPerMinute
                           /\ 2 * rs[k].elapsedMs < (2 * m + 1) * MsPerMinute
        IN  /\ \A i \in 1..7 :
                  /\ b[i].minutes = Cardinality({p \in onDay(i) \X (1..3) : p[2] <= mins(p[1])})
                  /\ b[i].correct = Cardinality({p \in onDay(i) \X (1..3) : p[2] <= rs[p[1]].score})
                  /\ b[i].total = Cardinality({p \in onDay(i) \X (1..3) : p[2] <= rs[p[1]].total})
                  /\ calc.out.summary.weekly[i].minutes = b[i].minutes
            /\ \A k \in 1..Len(rs) : rs[k].elapsedMs < 30000 => mins(k) = 0
            /\ b = byDay(stringifyRecords(SelectSeq(rs, tracked)), calc.arg.at)
            /\ calc.out.summary.totalMinutes =
                  b[1].minutes + b[2].minutes + b[3].minutes + b[4].minutes
                  + b[5].minutes + b[6].minutes + b[7].minutes

(* a record of seven days ago and a 90 s session of today: 2 minutes in all *)
C26_Witness ==
    /\ calc.fn = "week" /\ calc.done
    /\ Len(calc.arg.records) = 2
    /\ calc.arg.records[1].timestamp = WeekNow - 7 * DayMs + HourMs
    /\ calc.arg.records[1].elapsedMs = 90000
    /\ calc.arg.records[2].timestamp = WeekNow
    /\ calc.arg.records[2].elapsedMs = 90000
    /\ calc.out.byDay[7].minutes = 2
    /\ calc.out.summary.totalMinutes = 2

(* C29: for a store whose records all have 0 <= score <= total, the weekly  *)
(* summary has correctMinutes + wrongMinutes = totalMinutes, with neither   *)
(* of the two negative.                                                     *)
C29_CorrectAndWrongMinutes ==
    (/\ calc.fn = "week" /\ calc.done
     /\ \A k \in 1..Len(calc.arg.records) :
            0 <= calc.arg.records[k].score
            /\ calc.arg.records[k].score <= calc.arg.records[k].total) =>
        /\ calc.out.summary.correctMinutes + calc.out.summary.wrongMinutes
               = calc.out.summary.totalMinutes
        /\ calc.out.summary.correctMinutes >= 0
        /\ calc.out.summary.wrongMinutes >= 0

(* two sessions of 30 s with 1 of 2 on one day: 1 minute each way *)
C29_Witness ==
    /\ calc.fn = "week" /\ calc.done
    /\ Len(calc.arg.records) = 2
    /\ \A k \in 1..2 : calc.arg.records[k].score = 1 /\ calc.arg.records[k].total = 2
    /\ calc.out.summary.totalMinutes = 2
    /\ calc.out.summary.correctMinutes = 1
    /\ calc.out.summary.wrongMinutes = 1

(* C30: every stored record stamped not after now that is counted in one    *)
(* of the 7 day buckets is also returned by getRecordsWithinDays(7), also   *)
(* a record of six calendar days ago made at an earlier time of day than    *)
(* now.                                                                     *)
C30_BucketedRecordsAreWithin7Days ==
    (calc.fn = "week" /\ calc.done) =>
        LET rs == calc.arg.records
            keys == getLast7DayLabels(calc.arg.at)
            counted(r) == \E i \in 1..7 : toDateKey(r.timestamp) = keys[i]
        IN  \A k \in 1..Len(rs) :
                (rs[k].timestamp <= calc.arg.at /\ counted(rs[k])) =>
                    \E j \in 1..Len(calc.out.within7) : calc.out.within7[j] = rs[k]

(* C27: the read and summary functions leave the records slot and the       *)
(* achievements slot as they are; an evaluation changes the achievements    *)
(* slot at most, never the records slot; so whatever number of them is      *)
(* called, getRecords() returns what it returned before.                    *)
C27_ReadsLeaveTheSlots ==
    [][/\ last'.op = "Read" => (recordsRaw' = recordsRaw /\ achRaw' = achRaw)
       /\ last'.op = "Evaluate" => recordsRaw' = recordsRaw
       /\ last'.op \in {"Read", "Evaluate"} =>
              getRecords(recordsRaw') = getRecords(recordsRaw)]_vars

(* the weekly summary was read from a store that holds a record and an      *)
(* unlocked badge                                                           *)
C27_Witness ==
    /\ last.op = "Read"
    /\ last.fn = "getWeeklySummaryFromStorage"
    /\ last.out.totalMinutes > 0
    /\ getRecords(recordsRaw) # << >>
    /\ DOMAIN getUnlockedMap(achRaw) # {}

(* C28: a press on a module card is a click only when it was no long        *)
(* press.  When the pointer is released after the long-press timer of the   *)
(* press has fired, onClick is not called; when it is released before,      *)
(* onClick is called once and the press does not bring up the bubble.       *)
C28_LongPressIsNoClick ==
    [][last'.op = "onPointerUp" =>
        IF card.fired
        THEN card'.clicks = card.clicks
        ELSE card'.clicks = card.clicks + 1 /\ card'.info = card.info]_vars

====
